---- MODULE Spec2Model ----
(***************************************************************************)
(* Resource-lifecycle bookkeeping of the european-emissions data warehouse *)
(* scripts: the AWSService / AWSServiceCollection classes of               *)
(* src/aws_service_classes.py, the exception decorator and the             *)
(* availability-zone heuristic of src/utils.py.                            *)
(*                                                                         *)
(* The cloud provider is an opaque collaborator: every provider call       *)
(* either returns or raises, and the model chooses which.                  *)
(***************************************************************************)
EXTENDS Integers, Sequences, FiniteSets, TLC

\* ------------------------------------------------------------------ bounds
\* largest num_subnets / number of availability zones tried by AZSpec, next
\* to the values of num_subnets around SubnetLimit
MaxSubnets == 14
MaxAZs == 11
\* "assert self.num_subnets <= 256" of VPC.create
SubnetLimit == 256
\* largest max_attempts handed to delete_components_with_retry
MaxAttempts == 2
\* a provider teardown call fails at most this many times in one handler call
\* before it succeeds; MaxFails itself stands for "fails on every call"
MaxFails == 2

\* ------------------------------------------------------------------ values
\* Python's None, for names and ids (strings) and for num_azs_used (an int)
None == "None"
NoneInt == 0 - 1

\* The objects of the model.  arch is a plain AWSServiceCollection (main.py's
\* AWS_architecture); vpc is both a collection and a service; rds is a plain
\* service (main.py's data_warehouse).  The VPC is built with num_subnets = 0,
\* as in TestInternetGateway.create_service.
Plain == {"rds"}
Containers == {"vpc"}
Res == Containers \cup Plain
Coll == {"arch"} \cup Containers
\* rds is named "n1"; vpc_name is "n1" too or left at its default None;
\* contains_resource is asked for the names in Names
RdsName == "n1"
Names == {"n1", "n2"}
VpcNames == {"n1", None}

\* nesting depth of an object: a collection only holds objects below it, as
\* in main.py (arch > vpc > instances); this keeps the recursion of
\* delete_components well-founded
Rank(x) == CASE x = "arch" -> 0 [] x = "vpc" -> 1 [] OTHER -> 2

\* the provider-assigned identifier of a resource
IdOf(r) == "id_" \o r

VARIABLES
    objs,          \* the service objects constructed so far
    name,          \* AWSService.name
    id,            \* AWSService.id
    collections,   \* AWSService.collections (back-references, a list)
    components,    \* AWSServiceCollection.components (a list)
    pc,            \* "idle", or "retry" inside delete_components_with_retry
    rcoll,         \* the collection delete_components_with_retry runs on
    c,             \* its local counter c
    max_attempts,  \* its parameter
    passes,        \* number of delete_components calls it has made
    out,           \* what the last operation printed or returned
    last,          \* the last operation: [op, col, res, was]
    okset,         \* resources whose teardown succeeded in the last operation
    early,         \* containers torn down while their member list was non-empty
    pre,           \* what the last operation found: the members of the collection
                   \* (teardown of a collection), the collections holding the
                   \* resource (delete), else empty
    logged,        \* resources for which handle_exceptions printed an error in
                   \* the last operation
    tried,         \* resources that got a provider teardown call in the last operation
    escaped,       \* whether an exception left the last operation
    again,         \* resources that got a provider teardown call in the last
                   \* operation after their teardown had succeeded in it
    num_subnets,   \* argument of find_optimal_number_of_AZs / VPC.num_subnets
    num_azs,       \* len(azs)
    n_azs,         \* VPC.num_azs_used
    az_pc,         \* where VPC.create stands in its subnet part: "find", "place",
                   \* "done", or "raised" when the placement raised
    subnet_az,     \* az_idx of the subnets placed, in order of creation
    subnet_cidr,   \* the third octet of their CIDR blocks, in order of creation
    mpc,           \* where build_cloud_infrastructure stands
    err,           \* what escaped from a provisioning statement: "none",
                   \* "exception" or "interrupt" (KeyboardInterrupt)
    fatal,         \* the configuration file found missing: "none", "creds", "policy"
    late_calls,    \* provider creation calls issued after a file was found missing
    teardowns,     \* calls of AWS_architecture.delete_components_with_retry()
    ans,           \* the last line read by input('> '), a tuple of characters
    provisioned,   \* resources that provisioning has created at the provider
    lmax,          \* max_attempts of create_lambda_function_with_retry
    lc,            \* its counter c
    sleeps,        \* its calls of sleep(delay)
    attempts,      \* its calls of S3LambdaFunction(*creation_params)
    msg,           \* the last message printed by main.py
    deps           \* the dependencies the provider enforces: <<r, d>> when the
                   \* teardown of r is refused while d exists (DepSpec)

lifecycle == <<objs, name, id, collections, components>>
retryvars == <<pc, rcoll, c, max_attempts, passes>>
ghost == <<out, last, okset, early, pre, logged, tried, escaped, again>>
azvars == <<num_subnets, num_azs, n_azs, az_pc, subnet_az, subnet_cidr>>
mainvars == <<mpc, err, fatal, late_calls, teardowns, ans, provisioned, lmax, lc,
              sleeps, attempts, msg>>
vars == <<objs, name, id, collections, components, pc, rcoll, c,
          max_attempts, passes, out, last, okset, early, pre, logged, tried, escaped,
          again,
          num_subnets, num_azs, n_azs, az_pc, subnet_az, subnet_cidr, mpc, err, fatal, late_calls,
          teardowns, ans, provisioned, lmax, lc, sleeps, attempts, msg, deps>>

\* ------------------------------------------------------------------ lists
InSeq(x, s) == \E i \in 1..Len(s) : s[i] = x
Range(s) == {s[i] : i \in 1..Len(s)}
NoDup(s) == \A i, j \in 1..Len(s) : s[i] = s[j] => i = j
\* list.remove(x): drops the first occurrence
ListRemove(s, x) ==
    LET i == CHOOSE k \in 1..Len(s) : s[k] = x /\ \A j \in 1..(k-1) : s[j] # x
    IN SubSeq(s, 1, i-1) \o SubSeq(s, i+1, Len(s))

\* ------------------------------------------------------------------ utils.py
\* Python's builtin min(a, b) and floor division a // b (b > 0)
min(a, b) == IF b < a THEN b ELSE a
FloorDiv(a, b) == a \div b

find_optimal_number_of_AZs_nomin(n, z) ==
    IF n >= 4 THEN FloorDiv(n, 2) ELSE 2

find_optimal_number_of_AZs(n, z) ==
    IF n >= 4 THEN min(z, FloorDiv(n, 2)) ELSE 2

\* the two endings of delete_components_with_retry, by what they print
Manual == "Please delete the following components manually:"
Success == "All components deleted successfully!"

\* the flag 1 that AWSService.create and AWSService.delete return
Flag == "1"
Truthy(v) == v # None

\* handle_exceptions: the wrapper calls func, drops its return value, swallows
\* any Exception after printing it, and so returns None on every path
handle_exceptions(v) == None

\* what func did under the wrapper: it returned its flag, or raised an Exception
Outcome(raises) == IF raises THEN "raise" ELSE Flag

\* the except branch prints the error
Logged(v) == v = "raise"

Propagates_reraise(v) == v = "raise"

\* "except Exception" swallows what func raised: nothing reaches the caller
Propagates(v) == FALSE

\* ------------------------------------------------- AWSServiceCollection.add
\* h is the object graph: [objs, name, id, collections, components]
add_component_nocheck(h, col, r) ==
    [h EXCEPT !.components[col] = Append(@, r),
              !.collections[r] = IF InSeq(col, @) THEN @ ELSE Append(@, col)]

add_component_nobackref(h, col, r) ==
    [h EXCEPT !.components[col] = IF InSeq(r, @) THEN @ ELSE Append(@, r)]

add_component(h, col, r) ==
    [h EXCEPT !.components[col] = IF InSeq(r, @) THEN @ ELSE Append(@, r),
              !.collections[r] = IF InSeq(col, @) THEN @ ELSE Append(@, col)]

RECURSIVE add_components(_, _, _)
add_components(h, col, rs) ==
    IF rs = <<>> THEN h
    ELSE add_components(add_component(h, col, Head(rs)), col, Tail(rs))

empty(comps, col) == Len(comps[col]) = 0

\* ------------------------------------------------- AWSService.create / delete
\* the loop of AWSService.create over self.collections, from index i on
RECURSIVE AWSService_create_from(_, _, _)
AWSService_create_from(h, r, i) ==
    IF i > Len(h.collections[r]) THEN h
    ELSE LET col == h.collections[r][i]
             h1 == IF ~InSeq(r, h.components[col]) THEN add_component(h, col, r) ELSE h
         IN AWSService_create_from(h1, r, i + 1)

AWSService_create(h, r) == AWSService_create_from(h, r, 1)

\* the loop of AWSService.delete over self.collections, from index i on
RECURSIVE AWSService_delete_from(_, _, _)
AWSService_delete_from(comps, r, i) ==
    IF i > Len(collections[r]) THEN comps
    ELSE LET col == collections[r][i]
             c1 == IF InSeq(r, comps[col])
                   THEN [comps EXCEPT ![col] = ListRemove(@, r)] ELSE comps
         IN AWSService_delete_from(c1, r, i + 1)

AWSService_delete_keep(comps, r) == comps

AWSService_delete_first(comps, r) ==
    IF collections[r] # <<>> /\ InSeq(r, comps[collections[r][1]])
    THEN [comps EXCEPT ![collections[r][1]] = ListRemove(@, r)] ELSE comps

AWSService_delete(comps, r) == AWSService_delete_from(comps, r, 1)

\* ------------------------------------------------- concrete create()
\* the body of RDSInstance.create under its handle_exceptions wrapper: the
\* provider calls, the id taken from the response, then AWSService.create
create(h, r, raises) ==
    IF raises THEN h
    ELSE AWSService_create([h EXCEPT !.id[r] = IdOf(r)], r)

\* VPC.create under its wrapper, for num_subnets = 0: create_vpc, the id,
\* modify_vpc_attribute, AWSService.create, then describe_availability_zones
\* and an empty subnet loop.  raises names the provider call that raises:
\* "create_vpc", "modify", "describe" or "no"
VPC_create(h, raises) ==
    IF raises = "create_vpc" THEN h
    ELSE LET h1 == [h EXCEPT !.id["vpc"] = IdOf("vpc")]
         IN IF raises = "modify" THEN h1 ELSE AWSService_create(h1, "vpc")

\* the outcomes a call of r.create() can have
CreateOutcomes(r) ==
    IF r = "vpc" THEN {"create_vpc", "modify", "describe", "no"} ELSE BOOLEAN

\* ------------------------------------------------- teardown
\* st is the state a teardown handler threads through its calls:
\*   components  the member lists
\*   calls       provider teardown calls issued per resource in this handler
\*   okset       resources whose teardown call succeeded in this handler
\*   early       containers torn down with a non-empty member list
\*   failed      resources for which a teardown call raised in this handler
\*   ret         the value the last delete() returned
\*   raised      whether an exception left a delete() call
\*   again       resources that got a teardown call after one had succeeded
\* fc[r] is the number of teardown calls for r that raise before one returns
\* (MaxFails: every call raises).
St0 ==
    [components |-> components, calls |-> [r \in DOMAIN id |-> 0],
     okset |-> {}, early |-> {}, failed |-> {}, ret |-> None, raised |-> FALSE,
     again |-> {}]

\* the outcome of the next provider teardown call for r: it raises for a
\* resource that was never created (its id is None), and else as fc says
ProviderRaises(st, fc, r) == id[r] = None \/ fc[r] = MaxFails \/ st.calls[r] < fc[r]

\* whether a teardown call for r has succeeded before: in this handler call,
\* or in an earlier pass of the delete_components_with_retry that is running
Gone(st, r) == r \in st.okset \/ (pc = "retry" /\ r \in okset)

RECURSIVE delete(_, _, _), delete_components(_, _, _), delete_components_from(_, _, _, _, _)

delete_remove_on_failure(st, fc, r) ==
    LET s1 == IF r \in Containers THEN delete_components(st, fc, r) ELSE st
        s2 == [s1 EXCEPT !.calls[r] = @ + 1,
                         !.components = AWSService_delete(s1.components, r)]
    IN IF ProviderRaises(s1, fc, r)
       THEN [s2 EXCEPT !.failed = @ \cup {r}, !.ret = handle_exceptions("raise")]
       ELSE [s2 EXCEPT !.okset = @ \cup {r}, !.ret = handle_exceptions(Flag)]

\* the body of a concrete delete() (VPC.delete, RDSInstance.delete) under its
\* handle_exceptions wrapper: a container first runs delete_components on
\* itself; then the provider calls; then AWSService.delete
delete(st, fc, r) ==
    LET s1 == IF r \in Containers THEN delete_components(st, fc, r) ELSE st
        s2 == [s1 EXCEPT !.calls[r] = @ + 1,
                         !.again = IF Gone(s1, r) THEN @ \cup {r} ELSE @]
    IN IF ProviderRaises(s1, fc, r)
       THEN [s2 EXCEPT !.failed = IF Logged("raise") THEN @ \cup {r} ELSE @,
                       !.raised = @ \/ Propagates("raise"),
                       !.ret = handle_exceptions("raise")]
       ELSE [s2 EXCEPT !.components = AWSService_delete(s2.components, r),
                       !.okset = @ \cup {r},
                       !.early = IF r \in Containers /\ s2.components[r] # <<>>
                                 THEN @ \cup {r} ELSE @,
                       !.ret = handle_exceptions(Flag)]

delete_components_from_always(st, fc, col, snap, i) ==
    IF i > Len(snap) THEN st
    ELSE LET component == snap[i]
             s1 == IF component \in Containers
                   THEN delete_components(st, fc, component) ELSE st
             s2 == delete(s1, fc, component)
             s3 == IF InSeq(component, s2.components[col])
                   THEN [s2 EXCEPT !.components[col] = ListRemove(@, component)]
                   ELSE s2
         IN delete_components_from(s3, fc, col, snap, i + 1)

delete_components_from_stop(st, fc, col, snap, i) ==
    IF i > Len(snap) THEN st
    ELSE LET component == snap[i]
             s1 == IF component \in Containers
                   THEN delete_components(st, fc, component) ELSE st
             s2 == delete(s1, fc, component)
         IN IF component \in s2.failed THEN s2
            ELSE delete_components_from(s2, fc, col, snap, i + 1)

\* the loop of delete_components over the copy snap, from index i on
delete_components_from(st, fc, col, snap, i) ==
    IF i > Len(snap) THEN st
    ELSE LET component == snap[i]
             s1 == IF component \in Containers
                   THEN delete_components(st, fc, component) ELSE st
             s2 == delete(s1, fc, component)
             deletion_successful == s2.ret
             s3 == IF Truthy(deletion_successful)
                   THEN [s2 EXCEPT !.components[col] = ListRemove(@, component)]
                   ELSE s2
         IN delete_components_from(s3, fc, col, snap, i + 1)

delete_components(st, fc, col) ==
    delete_components_from(st, fc, col, st.components[col], 1)

\* ------------------------------------------------- contains_resource
RECURSIVE contains_scan(_, _, _, _)
contains_scan_noguard(col, nm, ident, i) ==
    IF i > Len(components[col]) THEN FALSE
    ELSE LET comp == components[col][i]
         IN IF Truthy(nm) /\ nm = name[comp] THEN TRUE
            ELSE IF ident = id[comp] THEN TRUE
            ELSE contains_scan(col, nm, ident, i + 1)

contains_scan_noname(col, nm, ident, i) ==
    IF i > Len(components[col]) THEN FALSE
    ELSE LET comp == components[col][i]
         IN IF Truthy(ident) /\ ident = id[comp] THEN TRUE
            ELSE contains_scan(col, nm, ident, i + 1)

\* the scan of contains_resource over self.components, from index i on
contains_scan(col, nm, ident, i) ==
    IF i > Len(components[col]) THEN FALSE
    ELSE LET comp == components[col][i]
         IN IF Truthy(nm) /\ nm = name[comp] THEN TRUE
            ELSE IF Truthy(ident) /\ ident = id[comp] THEN TRUE
            ELSE contains_scan(col, nm, ident, i + 1)

\* "raise" when neither key is given
contains_resource(col, nm, ident) ==
    IF ~Truthy(nm) /\ ~Truthy(ident) THEN "raise"
    ELSE IF contains_scan(col, nm, ident, 1) THEN "True" ELSE "False"

\* ------------------------------------------------------------------ state
Heap == [objs |-> objs, name |-> name, id |-> id, collections |-> collections,
         components |-> components]

SetHeap(h) ==
    /\ objs' = h.objs
    /\ name' = h.name
    /\ id' = h.id
    /\ collections' = h.collections
    /\ components' = h.components

\* the collection objects that exist
LiveColl == {"arch"} \cup (Containers \cap objs)

\* the lists a caller may pass as collections= when constructing r: the
\* collections above r, in nesting order
CollLists(r) ==
    LET S == {x \in LiveColl : Rank(x) < Rank(r)}
        AsList(T) == SelectSeq(<<"arch", "vpc">>, LAMBDA x : x \in T)
    IN {AsList(T) : T \in SUBSET S}

Members(r) == {col \in Coll : InSeq(r, components[col])}

Op(o, col, r, was) == [op |-> o, col |-> col, res |-> r, was |-> was]

\* outside delete_components_with_retry its locals do not exist
NoRetry ==
    /\ pc' = "idle"
    /\ rcoll' = "arch"
    /\ c' = 0
    /\ max_attempts' = 0
    /\ passes' = 0

\* build_cloud_infrastructure has not been called
MainIdle ==
    /\ mpc = "off"
    /\ err = "none"
    /\ fatal = "none"
    /\ late_calls = 0
    /\ teardowns = 0
    /\ ans = <<>>
    /\ provisioned = {}
    /\ lmax = 0
    /\ lc = 0
    /\ sleeps = 0
    /\ attempts = 0
    /\ msg = "none"

Init ==
    /\ objs = {}
    /\ name = [r \in Res |-> None]
    /\ id = [r \in Res |-> None]
    /\ collections = [r \in Res |-> <<>>]
    /\ components = [col \in Coll |-> <<>>]
    /\ pc = "idle"
    /\ rcoll = "arch"
    /\ c = 0
    /\ max_attempts = 0
    /\ passes = 0
    /\ out = "none"
    /\ last = Op("init", None, None, FALSE)
    /\ okset = {}
    /\ early = {}
    /\ pre = {}
    /\ logged = {}
    /\ tried = {}
    /\ escaped = FALSE
    /\ again = {}
    /\ num_subnets = 0
    /\ num_azs = 0
    /\ n_azs = NoneInt
    /\ az_pc = "find"
    /\ subnet_az = <<>>
    /\ subnet_cidr = <<>>
    /\ deps = {}
    /\ MainIdle

\* whether the outcome raises of r.create() is an exception
Raised(r, raises) == IF r = "vpc" THEN raises # "no" ELSE raises

\* RDSInstance(...): AWSService.__init__ then self.create()
Construct(r, cols, raises) ==
    /\ pc = "idle"
    /\ r \in Plain \ objs
    /\ SetHeap(create([Heap EXCEPT !.objs = @ \cup {r}, !.name[r] = RdsName,
                                   !.collections[r] = cols], r, raises))
    /\ last' = Op("construct", None, r, FALSE)
    /\ out' = handle_exceptions(Outcome(raises))
    /\ logged' = IF Logged(Outcome(raises)) THEN {r} ELSE {}
    /\ escaped' = Propagates(Outcome(raises))
    /\ tried' = {}
    /\ again' = {}
    /\ okset' = {}
    /\ early' = {}
    /\ pre' = {}
    /\ NoRetry
    /\ UNCHANGED <<azvars, mainvars, deps>>

\* VPC(session, region, num_subnets, vpc_name, collections)
ConstructVPC(cols, nm, raises) ==
    /\ pc = "idle"
    /\ "vpc" \notin objs
    /\ SetHeap(VPC_create([Heap EXCEPT !.objs = @ \cup {"vpc"}, !.name["vpc"] = nm,
                                       !.collections["vpc"] = cols], raises))
    /\ last' = Op("construct", None, "vpc", FALSE)
    /\ out' = handle_exceptions(Outcome(Raised("vpc", raises)))
    /\ logged' = IF Logged(Outcome(Raised("vpc", raises))) THEN {"vpc"} ELSE {}
    /\ escaped' = Propagates(Outcome(Raised("vpc", raises)))
    /\ tried' = {}
    /\ again' = {}
    /\ okset' = {}
    /\ early' = {}
    /\ pre' = {}
    /\ NoRetry
    /\ UNCHANGED <<azvars, mainvars, deps>>

\* a further call of create() on an object that exists
Create(r, raises) ==
    /\ pc = "idle"
    /\ r \in objs
    /\ SetHeap(IF r = "vpc" THEN VPC_create(Heap, raises) ELSE create(Heap, r, raises))
    /\ last' = Op("create", None, r, \A i \in 1..Len(collections[r]) :
                                        InSeq(r, components[collections[r][i]]))
    /\ out' = handle_exceptions(Outcome(Raised(r, raises)))
    /\ logged' = IF Logged(Outcome(Raised(r, raises))) THEN {r} ELSE {}
    /\ escaped' = Propagates(Outcome(Raised(r, raises)))
    /\ tried' = {}
    /\ again' = {}
    /\ okset' = {}
    /\ early' = {}
    /\ pre' = {}
    /\ NoRetry
    /\ UNCHANGED <<azvars, mainvars, deps>>

AddComponent(col, r) ==
    /\ pc = "idle"
    /\ col \in LiveColl
    /\ r \in objs
    /\ Rank(col) < Rank(r)
    /\ SetHeap(add_component(Heap, col, r))
    /\ last' = Op("add_component", col, r, InSeq(r, components[col]))
    /\ out' = "none"
    /\ logged' = {}
    /\ tried' = {}
    /\ again' = {}
    /\ escaped' = FALSE
    /\ okset' = {}
    /\ early' = {}
    /\ pre' = {}
    /\ NoRetry
    /\ UNCHANGED <<azvars, mainvars, deps>>

AddComponents(col, rs) ==
    /\ pc = "idle"
    /\ col \in LiveColl
    /\ Len(rs) = 2
    /\ \A i \in 1..Len(rs) : rs[i] \in objs /\ Rank(col) < Rank(rs[i])
    /\ SetHeap(add_components(Heap, col, rs))
    /\ last' = Op("add_components", col, rs[1],
                  \A i \in 1..Len(rs) : InSeq(rs[i], components[col]))
    /\ out' = "none"
    /\ logged' = {}
    /\ tried' = {}
    /\ again' = {}
    /\ escaped' = FALSE
    /\ okset' = {}
    /\ early' = {}
    /\ pre' = {}
    /\ NoRetry
    /\ UNCHANGED <<azvars, mainvars, deps>>

\* a teardown handler changes member lists only
SetTeardown(st) ==
    /\ components' = st.components
    /\ UNCHANGED <<objs, name, id, collections>>

Oracles == [Res -> 0..MaxFails]

\* r.delete() called directly
Delete(r, fc) ==
    /\ pc = "idle"
    /\ r \in objs
    /\ LET st == delete(St0, fc, r)
       IN /\ SetTeardown(st)
          /\ okset' = st.okset
          /\ early' = st.early
          /\ logged' = st.failed
          /\ tried' = {x \in DOMAIN st.calls : st.calls[x] > 0}
          /\ escaped' = st.raised
          /\ again' = st.again
          /\ out' = st.ret
    /\ last' = Op("delete", None, r, Cardinality(Members(r)) >= 2)
    /\ pre' = Members(r)
    /\ NoRetry
    /\ UNCHANGED <<azvars, mainvars, deps>>

\* col.delete_components() called directly: one pass
DeleteComponents(col, fc) ==
    /\ pc = "idle"
    /\ col \in LiveColl
    /\ LET st == delete_components(St0, fc, col)
       IN /\ SetTeardown(st)
          /\ okset' = st.okset
          /\ early' = st.early
          /\ logged' = st.failed
          /\ tried' = {x \in DOMAIN st.calls : st.calls[x] > 0}
          /\ escaped' = st.raised
          /\ again' = st.again
          /\ last' = Op("delete_components", col, None, st.failed = {})
    /\ out' = "none"
    /\ pre' = Range(components[col])
    /\ NoRetry
    /\ UNCHANGED <<azvars, mainvars, deps>>

\* the test "if c > max_attempts" of delete_components_with_retry
GiveUp_late(cc, m) == cc > m + 1

GiveUp_early(cc, m) == cc >= m

GiveUp(cc, m) == cc > m

\* delete_components_with_retry(m) is entered on col, whose member lists
\* are comps: c = 0
RetryEnter(col, m, comps) ==
    /\ pc' = "retry"
    /\ rcoll' = col
    /\ c' = 0
    /\ max_attempts' = m
    /\ passes' = 0
    /\ out' = "none"
    /\ okset' = {}
    /\ early' = {}
    /\ last' = Op("retry", col, None, FALSE)
    /\ pre' = Range(comps[col])
    /\ logged' = {}
    /\ tried' = {}
    /\ again' = {}
    /\ escaped' = FALSE

\* col.delete_components_with_retry(m) called directly
RetryCall(col, m) ==
    /\ pc = "idle"
    /\ col \in LiveColl
    /\ RetryEnter(col, m, components)
    /\ UNCHANGED <<lifecycle, azvars, mainvars, deps>>

\* while not self.empty: ... c += 1; self.delete_components()
RetryPass(fc) ==
    /\ pc = "retry"
    /\ ~empty(components, rcoll)
    /\ ~GiveUp(c, max_attempts)
    /\ c' = c + 1
    /\ \E st \in {delete_components(St0, fc, rcoll)} :
          /\ SetTeardown(st)
          /\ okset' = okset \cup st.okset
          /\ early' = early \cup st.early
          /\ logged' = logged \cup st.failed
          /\ tried' = tried \cup {x \in DOMAIN st.calls : st.calls[x] > 0}
          /\ escaped' = (escaped \/ st.raised)
          /\ again' = again \cup st.again
    /\ passes' = passes + 1
    /\ UNCHANGED <<pc, rcoll, max_attempts, out, last, pre, azvars, mainvars, deps>>

\* if c > max_attempts: print the manual-cleanup listing; return
RetryGiveUp ==
    /\ pc = "retry"
    /\ ~empty(components, rcoll)
    /\ GiveUp(c, max_attempts)
    /\ out' = Manual
    /\ pc' = "idle"
    /\ UNCHANGED <<lifecycle, rcoll, c, max_attempts, passes, last, okset, early, pre,
                   logged, tried, escaped, again, azvars, mainvars, deps>>

\* the loop ends: print("All components deleted successfully!")
RetryDone ==
    /\ pc = "retry"
    /\ empty(components, rcoll)
    /\ out' = Success
    /\ pc' = "idle"
    /\ UNCHANGED <<lifecycle, rcoll, c, max_attempts, passes, last, okset, early, pre,
                   logged, tried, escaped, again, azvars, mainvars, deps>>

RetryStep == (\E fc \in Oracles : RetryPass(fc)) \/ RetryGiveUp \/ RetryDone

\* col.contains_resource(name=nm, id=ident)
ContainsResource(col, nm, ident) ==
    /\ pc = "idle"
    /\ col \in LiveColl
    /\ out' = contains_resource(col, nm, ident)
    /\ last' = Op("contains_resource", col, <<nm, ident>>, FALSE)
    /\ logged' = {}
    /\ tried' = {}
    /\ again' = {}
    /\ escaped' = (contains_resource(col, nm, ident) = "raise")
    /\ okset' = {}
    /\ early' = {}
    /\ pre' = {}
    /\ NoRetry
    /\ UNCHANGED <<lifecycle, azvars, mainvars, deps>>

Next ==
    \/ \E r \in Plain, raises \in BOOLEAN :
          \E cols \in CollLists(r) : Construct(r, cols, raises)
    \/ \E cols \in CollLists("vpc"), nm \in VpcNames, raises \in CreateOutcomes("vpc") :
          ConstructVPC(cols, nm, raises)
    \/ \E r \in Res : \E raises \in CreateOutcomes(r) : Create(r, raises)
    \/ \E col \in Coll, r \in Res : AddComponent(col, r)
    \/ \E col \in Coll, rs \in [1..2 -> Res] : AddComponents(col, rs)
    \/ \E r \in Res, fc \in Oracles : Delete(r, fc)
    \/ \E col \in Coll, fc \in Oracles : DeleteComponents(col, fc)
    \/ \E col \in Coll, m \in 0..MaxAttempts : RetryCall(col, m)
    \/ \E fc \in Oracles : RetryPass(fc)
    \/ RetryGiveUp
    \/ RetryDone
    \/ \E col \in Coll, nm \in Names \cup {None}, ident \in {IdOf("rds"), None} :
          ContainsResource(col, nm, ident)

Spec == Init /\ [][Next]_vars

\* ---------------------------------------------- the zone-count heuristic alone
InitAZ ==
    /\ objs = {}
    /\ name = [r \in Res |-> None]
    /\ id = [r \in Res |-> None]
    /\ collections = [r \in Res |-> <<>>]
    /\ components = [col \in Coll |-> <<>>]
    /\ pc = "idle"
    /\ rcoll = "arch"
    /\ c = 0
    /\ max_attempts = 0
    /\ passes = 0
    /\ out = "none"
    /\ last = Op("init", None, None, FALSE)
    /\ okset = {}
    /\ early = {}
    /\ pre = {}
    /\ logged = {}
    /\ tried = {}
    /\ escaped = FALSE
    /\ again = {}
    /\ num_subnets \in (0..MaxSubnets) \cup {SubnetLimit, SubnetLimit + 1}
    /\ num_azs \in 0..MaxAZs
    /\ n_azs = NoneInt
    /\ az_pc = "find"
    /\ subnet_az = <<>>
    /\ subnet_cidr = <<>>
    /\ deps = {}
    /\ MainIdle

\* n_azs = find_optimal_number_of_AZs(self.num_subnets, len(azs))
CallFindOptimal ==
    /\ az_pc = "find"
    /\ num_subnets <= SubnetLimit
    /\ n_azs' = find_optimal_number_of_AZs(num_subnets, num_azs)
    /\ az_pc' = "place"
    /\ UNCHANGED <<lifecycle, retryvars, ghost, mainvars, deps, num_subnets, num_azs, subnet_az,
                   subnet_cidr>>

\* assert self.num_subnets <= 256 fails: the AssertionError ends create()
\* under its wrapper before any provider call
AssertFails ==
    /\ az_pc = "find"
    /\ ~(num_subnets <= SubnetLimit)
    /\ az_pc' = "rejected"
    /\ UNCHANGED <<lifecycle, retryvars, ghost, mainvars, deps, num_subnets, num_azs, n_azs,
                   subnet_az, subnet_cidr>>

\* np.ceil(a / b) for integers a >= 0 and b > 0
CeilDiv(a, b) == (a + b - 1) \div b

az_idx_roundrobin(i, max_n_subnets_per_az) == i % max_n_subnets_per_az

\* az_idx = int(i // max_n_subnets_per_az)
az_idx(i, max_n_subnets_per_az) == FloorDiv(i, max_n_subnets_per_az)

\* the loop "for i in range(self.num_subnets)" of VPC.create from index i on:
\* azs[az_idx] raises an IndexError at the first index whose az_idx is not
\* below len(azs), which ends the loop; az holds the az_idx of the subnets
\* created before that
place_from(i, n, max_n, z) ==
    LET bad == {j \in i..(n - 1) : az_idx(j, max_n) >= z}
        stop == IF bad = {} THEN n ELSE CHOOSE j \in bad : \A l \in bad : j <= l
    IN [raised |-> bad # {}, az |-> [j \in 1..(stop - i) |-> az_idx(i + j - 1, max_n)]]

\* lines 263-276 of VPC.create: num_subnets / n_azs raises a
\* ZeroDivisionError when n_azs is 0
place(n, k, z) ==
    IF k = 0 THEN [raised |-> TRUE, az |-> <<>>]
    ELSE place_from(0, n, CeilDiv(n, k), z)

\* subnet_cidr = f'10.0.{i+1}.0/24': the third octet of the block of subnet i
third_octet(i) == i + 1

\* max_n_subnets_per_az = ...; for i in range(self.num_subnets): ...
PlaceSubnets ==
    /\ az_pc = "place"
    /\ LET res == place(num_subnets, n_azs, num_azs)
       IN /\ subnet_az' = res.az
          /\ subnet_cidr' = [j \in 1..Len(res.az) |-> third_octet(j - 1)]
          /\ az_pc' = IF res.raised THEN "raised" ELSE "done"
    /\ UNCHANGED <<lifecycle, retryvars, ghost, mainvars, deps, num_subnets, num_azs, n_azs>>

NextAZ == CallFindOptimal \/ AssertFails \/ PlaceSubnets

AZSpec == InitAZ /\ [][NextAZ]_vars


\* ------------------------------------------- main.py: build_cloud_infrastructure
\* The orchestration, along the chain glue_lambda_policy -> glue_lambda_role ->
\* etl_lambda_function -> data_warehouse.create_database of main.py; the other
\* constructions of the try block have the shape of these.  Every resource is
\* constructed with collections=[AWS_architecture].
MainRes == {"policy", "role", "lambda"}
LambdaName == "lambda"

\* largest max_attempts tried for create_lambda_function_with_retry (main.py
\* calls it with the default, 2)
MaxLambdaAttempts == 2
\* the default max_attempts of delete_components_with_retry
DefaultMaxAttempts == 3

CouldNotCreate == "Could not create Lambda function!"

\* str.lower() on the letters of the commands; other characters are kept
LowerMap == [A |-> "a", D |-> "d", E |-> "e", I |-> "i", L |-> "l", O |-> "o", P |-> "p", T |-> "t", U |-> "u", X |-> "x"]
LowerChar(ch) == IF ch \in DOMAIN LowerMap THEN LowerMap[ch] ELSE ch
Lower_asis(a) == a
Lower(a) == [i \in 1..Len(a) |-> LowerChar(a[i])]

\* the lines typed at the prompt
Inputs ==
    {<<"d", "e", "l", "e", "t", "e">>,
     <<"D", "E", "L", "E", "T", "E">>,
     <<"D", "e", "l", "e", "t", "e">>,
     <<"e", "x", "i", "t">>,
     <<"E", "X", "I", "T">>,
     <<"e", "X", "i", "t">>,
     <<"u", "p", "l", "o", "a", "d">>,
     <<"U", "P", "L", "O", "A", "D">>,
     <<"e", "x", "i", "t", " ">>,
     <<"q">>,
     <<>>}

InitMain ==
    /\ objs = {}
    /\ name = [r \in MainRes |-> None]
    /\ id = [r \in MainRes |-> None]
    /\ collections = [r \in MainRes |-> <<>>]
    /\ components = [col \in Coll |-> <<>>]
    /\ pc = "idle"
    /\ rcoll = "arch"
    /\ c = 0
    /\ max_attempts = 0
    /\ passes = 0
    /\ out = "none"
    /\ last = Op("init", None, None, FALSE)
    /\ okset = {}
    /\ early = {}
    /\ pre = {}
    /\ logged = {}
    /\ tried = {}
    /\ escaped = FALSE
    /\ again = {}
    /\ num_subnets = 0
    /\ num_azs = 0
    /\ n_azs = NoneInt
    /\ az_pc = "find"
    /\ subnet_az = <<>>
    /\ subnet_cidr = <<>>
    /\ deps = {}
    /\ mpc = "creds"
    /\ err = "none"
    /\ fatal = "none"
    /\ late_calls = 0
    /\ teardowns = 0
    /\ ans = <<>>
    /\ provisioned = {}
    /\ lmax \in 0..MaxLambdaAttempts
    /\ lc = 0
    /\ sleeps = 0
    /\ attempts = 0
    /\ msg = "none"

\* except (KeyboardInterrupt, Exception) as e
Caught_exception_only(e) == e = "exception"

Caught(e) == e \in {"exception", "interrupt"}

\* the object a constructor starts from: AWSService.__init__ and the name
NewObject(h, r) ==
    [h EXCEPT !.objs = @ \cup {r}, !.name[r] = r, !.id[r] = None,
              !.collections[r] = <<"arch">>]

\* One statement of the try block.  h is the object graph it leaves, e what
\* escaped from it, nxt the statement that follows, f the file found missing,
\* calls the provider creation calls it issued, prov the resources it created
\* at the provider, m what it printed.  An exception or interrupt goes to the
\* handler of lines 283-292, which calls delete_components_with_retry().
MainStep(h, e, nxt, f, calls, prov, m) ==
    /\ SetHeap(h)
    /\ err' = e
    /\ fatal' = f
    /\ late_calls' = late_calls + (IF fatal # "none" THEN calls ELSE 0)
    /\ provisioned' = provisioned \cup prov
    /\ IF e = "none"
       THEN /\ mpc' = nxt
            /\ msg' = m
            /\ teardowns' = teardowns
            /\ UNCHANGED <<retryvars, ghost>>
       ELSE IF Caught(e)
       THEN /\ mpc' = "deleting"
            /\ msg' = "Aborting..."
            /\ teardowns' = teardowns + 1
            /\ RetryEnter("arch", DefaultMaxAttempts, h.components)
       ELSE /\ mpc' = "exited"
            /\ msg' = "Traceback"
            /\ teardowns' = teardowns
            /\ UNCHANGED <<retryvars, ghost>>
    /\ UNCHANGED <<ans, lmax, azvars, deps>>

\* lines 80-88: the credentials file is read, or the program exits
LoadCredentials(found) ==
    /\ mpc = "creds"
    /\ IF found
       THEN mpc' = "connect" /\ UNCHANGED <<fatal, msg>>
       ELSE mpc' = "exited" /\ fatal' = "creds" /\ msg' = "JSON file not found!"
    /\ UNCHANGED <<lifecycle, retryvars, ghost, azvars, deps, err, late_calls, teardowns, ans,
                   provisioned, lmax, lc, sleeps, attempts>>

\* lines 91-114: the session, and the prompt "Continue? [yes]/no"
Connect(ok) ==
    /\ mpc = "connect"
    /\ IF ok
       THEN mpc' = "policy" /\ msg' = "Building cloud infrastructure..."
       ELSE mpc' = "exited" /\ msg' = "Exiting"
    /\ UNCHANGED <<lifecycle, retryvars, ghost, azvars, deps, err, fatal, late_calls, teardowns,
                   ans, provisioned, lmax, lc, sleeps, attempts>>

\* glue_lambda_policy = IAMPolicy(..., json_file=..., collections=[arch]):
\* the policy document is opened, create_policy is called, the id is set and
\* AWSService.create registers the policy
PolicyOutcomes == {"interrupt", "nofile", "raise", "ok"}
CreatePolicy(o) ==
    /\ mpc = "policy"
    /\ LET h0 == NewObject(Heap, "policy")
       IN CASE o = "interrupt" -> MainStep(h0, "interrupt", "role", fatal, 0, {}, msg)
            [] o = "nofile" -> MainStep(h0, "none", "role", "policy", 0, {}, "An error occured")
            [] o = "raise" -> MainStep(h0, "none", "role", fatal, 1, {}, "An error occured")
            [] o = "ok" -> MainStep(create(h0, "policy", FALSE), "none", "role", fatal, 1,
                                    {"policy"}, "Created")
    /\ UNCHANGED <<lc, sleeps, attempts>>

\* glue_lambda_role = IAMRole(..., policies=[glue_lambda_policy], ...):
\* create_role, attach_role_policy with the id of the policy, the id, then
\* AWSService.create.  attach_role_policy raises when the policy has no id.
RoleOutcomes ==
    {"interrupt", "raise_create", "raise_attach"} \cup
    (IF id["policy"] # None THEN {"ok"} ELSE {})
CreateRole(o) ==
    /\ mpc = "role"
    /\ o \in RoleOutcomes
    /\ LET h0 == NewObject(Heap, "role")
       IN CASE o = "interrupt" -> MainStep(h0, "interrupt", "lambda", fatal, 0, {}, msg)
            [] o = "raise_create" ->
                 MainStep(h0, "none", "lambda", fatal, 1, {}, "An error occured")
            [] o = "raise_attach" ->
                 MainStep(h0, "none", "lambda", fatal, 1, {"role"}, "An error occured")
            [] o = "ok" -> MainStep(create(h0, "role", FALSE), "none", "lambda", fatal, 1,
                                    {"role"}, "Created")
    /\ UNCHANGED <<lc, sleeps, attempts>>

\* the test "if c >= max_attempts" of create_lambda_function_with_retry
GiveUpLambda_late(cc, m) == cc > m

GiveUpLambda(cc, m) == cc >= m

\* the local lambda_func_obj is assigned by line 53 only
Unbound(n_attempts) == n_attempts = 0

\* create_lambda_function_with_retry, lines 39-49 and 55: the loop test, the
\* give-up test, c += 1; when the loop ends, "return lambda_func_obj", which
\* raises an UnboundLocalError if the loop body never ran
LambdaTest ==
    /\ mpc = "lambda"
    /\ IF contains_resource("arch", LambdaName, None) = "True"
       THEN /\ MainStep(Heap, IF Unbound(attempts) THEN "exception" ELSE "none",
                        "database", fatal, 0, {}, msg)
            /\ UNCHANGED <<lc, sleeps, attempts>>
       ELSE /\ IF GiveUpLambda(lc, lmax)
               THEN mpc' = "database" /\ msg' = CouldNotCreate /\ lc' = lc
               ELSE mpc' = "lambda_sleep" /\ lc' = lc + 1 /\ UNCHANGED msg
            /\ UNCHANGED <<lifecycle, retryvars, ghost, azvars, deps, err, fatal, late_calls,
                           teardowns, ans, provisioned, lmax, sleeps, attempts>>

\* line 50: sleep(delay), which Ctrl-C may interrupt
LambdaSleep(o) ==
    /\ mpc = "lambda_sleep"
    /\ sleeps' = sleeps + 1
    /\ MainStep(Heap, IF o = "interrupt" THEN "interrupt" ELSE "none", "lambda_new",
                fatal, 0, {}, msg)
    /\ UNCHANGED <<lc, attempts>>

\* line 53: S3LambdaFunction(*creation_params): create_function with the id
\* of the role, the id, the waiter, add_permission, the bucket notification,
\* then AWSService.create.  create_function raises when the role has no id or
\* the function exists already.
LambdaOutcomes ==
    {"raise_create"} \cup
    (IF id["role"] # None /\ "lambda" \notin provisioned
     THEN {"int_wait", "raise_after", "ok"} ELSE {})
NewLambda(o) ==
    /\ mpc = "lambda_new"
    /\ o \in LambdaOutcomes
    /\ attempts' = attempts + 1
    /\ LET h0 == NewObject(Heap, "lambda")
           h1 == [h0 EXCEPT !.id["lambda"] = IdOf("lambda")]
       IN CASE o = "raise_create" ->
                 MainStep(h0, "none", "lambda", fatal, 1, {}, "An error occured")
            [] o = "int_wait" -> MainStep(h1, "interrupt", "lambda", fatal, 1, {"lambda"}, msg)
            [] o = "raise_after" ->
                 MainStep(h1, "none", "lambda", fatal, 1, {"lambda"}, "An error occured")
            [] o = "ok" -> MainStep(create(h0, "lambda", FALSE), "none", "lambda", fatal, 1,
                                    {"lambda"}, "Created")
    /\ UNCHANGED <<lc, sleeps>>

\* line 254: data_warehouse.create_database(...), which has no wrapper
CreateDatabase(o) ==
    /\ mpc = "database"
    /\ MainStep(Heap, IF o = "ok" THEN "none" ELSE o, "ready", fatal, 0, {},
                "Finished setting up cloud infrastructure!")
    /\ UNCHANGED <<lc, sleeps, attempts>>

\* lines 314-346: one line read at the prompt
Command(a, o) ==
    /\ mpc = "ready"
    /\ ans' = a
    /\ IF Lower(a) = <<"d", "e", "l", "e", "t", "e">>
       THEN /\ mpc' = "deleting"
            /\ msg' = "none"
            /\ teardowns' = teardowns + 1
            /\ RetryEnter("arch", DefaultMaxAttempts, components)
       ELSE IF Lower(a) = <<"e", "x", "i", "t">>
       THEN /\ mpc' = "exited"
            /\ msg' = "Exiting without deleting all AWS resources!"
            /\ UNCHANGED <<teardowns, retryvars, ghost>>
       ELSE IF Lower(a) = <<"u", "p", "l", "o", "a", "d">>
       THEN /\ mpc' = "ready"
            /\ msg' = o
            /\ UNCHANGED <<teardowns, retryvars, ghost>>
       ELSE /\ mpc' = "ready"
            /\ msg' = "Unknown command"
            /\ UNCHANGED <<teardowns, retryvars, ghost>>
    /\ UNCHANGED <<lifecycle, azvars, deps, err, fatal, late_calls, provisioned, lmax, lc,
                   sleeps, attempts>>

\* what an upload prints: the download failed, upload_data logged an error,
\* or the file was uploaded
UploadOutcomes == {"Failed to download data!", "An error occured", "Uploading"}

\* Ctrl-C at the prompt: no handler is in place
ReadyInterrupt ==
    /\ mpc = "ready"
    /\ mpc' = "exited"
    /\ msg' = "Traceback"
    /\ UNCHANGED <<lifecycle, retryvars, ghost, azvars, deps, err, fatal, late_calls, teardowns,
                   ans, provisioned, lmax, lc, sleeps, attempts>>

\* lines 291-292 and 320-321: delete_components_with_retry has returned; exit()
MainExit ==
    /\ mpc = "deleting"
    /\ pc = "idle"
    /\ mpc' = "exited"
    /\ msg' = IF err = "none" THEN "Done!" ELSE "Exiting"
    /\ UNCHANGED <<lifecycle, retryvars, ghost, azvars, deps, err, fatal, late_calls, teardowns,
                   ans, provisioned, lmax, lc, sleeps, attempts>>

MainOracles == [MainRes -> 0..MaxFails]

\* a step of the teardown that main.py has started
MainTeardownStep ==
    (\E fc \in MainOracles : RetryPass(fc)) \/ RetryGiveUp \/ RetryDone \/ MainExit

LambdaStep ==
    \/ LambdaTest
    \/ \E o \in {"ok", "interrupt"} : LambdaSleep(o)
    \/ \E o \in LambdaOutcomes : NewLambda(o)

MainNext ==
    \/ \E found \in BOOLEAN : LoadCredentials(found)
    \/ \E ok \in BOOLEAN : Connect(ok)
    \/ \E o \in PolicyOutcomes : CreatePolicy(o)
    \/ \E o \in RoleOutcomes : CreateRole(o)
    \/ LambdaTest
    \/ \E o \in {"ok", "interrupt"} : LambdaSleep(o)
    \/ \E o \in LambdaOutcomes : NewLambda(o)
    \/ \E o \in {"ok", "exception", "interrupt"} : CreateDatabase(o)
    \/ \E a \in Inputs, o \in UploadOutcomes : Command(a, o)
    \/ ReadyInterrupt
    \/ \E fc \in MainOracles : RetryPass(fc)
    \/ RetryGiveUp
    \/ RetryDone
    \/ MainExit

MainSpec == InitMain /\ [][MainNext]_vars

\* ------------------------------- create_lambda_function_with_retry on its own
\* The call of create_lambda_function_with_retry(LambdaName, params, arch,
\* lmax) from the try block, for a collection that holds any of the resources
\* of MainRes: those in S were constructed with collections=[AWS_architecture]
\* and created without an error.
RECURSIVE Built(_, _)
Built(h, rs) ==
    IF rs = <<>> THEN h
    ELSE Built(create(NewObject(h, Head(rs)), Head(rs), FALSE), Tail(rs))

InitLambda ==
    /\ \E S \in SUBSET MainRes :
          LET h == Built([objs |-> {}, name |-> [r \in MainRes |-> None],
                          id |-> [r \in MainRes |-> None],
                          collections |-> [r \in MainRes |-> <<>>],
                          components |-> [col \in Coll |-> <<>>]],
                         SelectSeq(<<"policy", "role", "lambda">>, LAMBDA r : r \in S))
          IN /\ objs = h.objs
             /\ name = h.name
             /\ id = h.id
             /\ collections = h.collections
             /\ components = h.components
             /\ provisioned = S
    /\ pc = "idle"
    /\ rcoll = "arch"
    /\ c = 0
    /\ max_attempts = 0
    /\ passes = 0
    /\ out = "none"
    /\ last = Op("init", None, None, FALSE)
    /\ okset = {}
    /\ early = {}
    /\ pre = {}
    /\ logged = {}
    /\ tried = {}
    /\ escaped = FALSE
    /\ again = {}
    /\ num_subnets = 0
    /\ num_azs = 0
    /\ n_azs = NoneInt
    /\ az_pc = "find"
    /\ subnet_az = <<>>
    /\ subnet_cidr = <<>>
    /\ deps = {}
    /\ mpc = "lambda"
    /\ err = "none"
    /\ fatal = "none"
    /\ late_calls = 0
    /\ teardowns = 0
    /\ ans = <<>>
    /\ lmax \in 0..MaxLambdaAttempts
    /\ lc = 0
    /\ sleeps = 0
    /\ attempts = 0
    /\ msg = "none"

LambdaNext ==
    \/ LambdaTest
    \/ \E o \in {"ok", "interrupt"} : LambdaSleep(o)
    \/ \E o \in LambdaOutcomes : NewLambda(o)
    \/ \E fc \in MainOracles : RetryPass(fc)
    \/ RetryGiveUp
    \/ RetryDone
    \/ MainExit

LambdaSpec == InitLambda /\ [][LambdaNext]_vars

\* -------------------------------------- teardown under dependency failures
\* delete_components_with_retry on a collection whose members the provider
\* refuses to delete while a member that depends on them exists (a policy
\* attached to a role: iam.delete_policy raises until IAMRole.delete has
\* detached it).  The members are the resources of MainRes, constructed with
\* collections=[AWS_architecture] in any order.

\* the lists without repetition over the elements of S
Perms(S) == {p \in [1..Cardinality(S) -> S] : \A i, j \in 1..Cardinality(S) : p[i] = p[j] => i = j}

\* whether b is reached from a along D through the elements of M
RECURSIVE Reaches(_, _, _, _)
Reaches(a, b, D, M) ==
    \E x \in M : <<a, x>> \in D /\ (x = b \/ Reaches(x, b, D, M \ {x}))

Acyclic(D, S) == \A r \in S : ~Reaches(r, r, D, S)

\* the position of member x in the list s
Index(s, x) == CHOOSE i \in 1..Len(s) : s[i] = x

\* a pass in which the teardown calls raise as fc says respects the
\* dependencies: the call for r raises only if some member that depends on r
\* exists when it is made, one that comes later in the list or one whose own
\* teardown raised earlier in the pass
DepConsistent(fc) ==
    LET list == components[rcoll]
    IN \A r \in DOMAIN fc :
          IF fc[r] = 0 THEN TRUE
          ELSE /\ InSeq(r, list)
               /\ \E d \in Range(list) :
                     /\ <<r, d>> \in deps
                     /\ (Index(list, d) > Index(list, r) \/ fc[d] # 0)

DepOracles == {fc \in [MainRes -> {0, MaxFails}] : DepConsistent(fc)}

InitDep ==
    /\ \E S \in SUBSET MainRes : \E order \in Perms(S) :
          LET h == Built([objs |-> {}, name |-> [r \in MainRes |-> None],
                          id |-> [r \in MainRes |-> None],
                          collections |-> [r \in MainRes |-> <<>>],
                          components |-> [col \in Coll |-> <<>>]], order)
          IN /\ objs = h.objs
             /\ name = h.name
             /\ id = h.id
             /\ collections = h.collections
             /\ components = h.components
             /\ provisioned = S
             /\ deps \in {D \in SUBSET ((S \X S) \ {<<r, r>> : r \in S}) : Acyclic(D, S)}
    /\ pc = "idle"
    /\ rcoll = "arch"
    /\ c = 0
    /\ max_attempts = 0
    /\ passes = 0
    /\ out = "none"
    /\ last = Op("init", None, None, FALSE)
    /\ okset = {}
    /\ early = {}
    /\ pre = {}
    /\ logged = {}
    /\ tried = {}
    /\ escaped = FALSE
    /\ again = {}
    /\ num_subnets = 0
    /\ num_azs = 0
    /\ n_azs = NoneInt
    /\ az_pc = "find"
    /\ subnet_az = <<>>
    /\ subnet_cidr = <<>>
    /\ mpc = "off"
    /\ err = "none"
    /\ fatal = "none"
    /\ late_calls = 0
    /\ teardowns = 0
    /\ ans = <<>>
    /\ lmax = 0
    /\ lc = 0
    /\ sleeps = 0
    /\ attempts = 0
    /\ msg = "none"

\* AWS_architecture.delete_components_with_retry(m), called once
DepCall(m) ==
    /\ last.op = "init"
    /\ RetryCall("arch", m)

DepNext ==
    \/ \E m \in 0..MaxAttempts : DepCall(m)
    \/ \E fc \in DepOracles : RetryPass(fc)
    \/ RetryGiveUp
    \/ RetryDone

DepSpec == InitDep /\ [][DepNext]_vars

\* ================================================================ claims

\* C1: for every num_subnets >= 0 and num_azs >= 0 the heuristic returns 2
\* when num_subnets < 4, and otherwise the smaller of num_azs and the half of
\* num_subnets rounded down (a bound of both, and equal to one of them).
Half(n) == CHOOSE q \in 0..n : 2 * q <= n /\ n < 2 * q + 2
TEST_CASES_FIND_NUM_AZS ==
    {<<2, 2, 2>>, <<10, 2, 2>>, <<4, 10, 2>>, <<6, 10, 3>>,
     <<1, 10, 1>>, <<10, 10, 5>>, <<3, 10, 2>>, <<13, 10, 6>>}
Cex_C2 ==
    n_azs # NoneInt =>
        \A case \in TEST_CASES_FIND_NUM_AZS :
            (num_subnets = case[1] /\ num_azs = case[2]) => n_azs = case[3]

\* C3: no member list ever holds the same resource twice, and add_component,
\* add_components or create() on a resource that is already a member (of the
\* collection, of each of its collections) leaves every member count unchanged.
NoDuplicates == \A col \in Coll : NoDup(components[col])
Thm_C3 ==
    /\ []NoDuplicates
    /\ [][(last'.op \in {"add_component", "add_components", "create"} /\ last'.was)
            => \A col \in Coll : Len(components'[col]) = Len(components[col])]_vars
Wit_C3 ==
    /\ last.op = "add_component"
    /\ last.was
    /\ Len(components[last.col]) >= 2

\* C4: after one call of delete_components in which no teardown call raised
\* (for the members and for the members of nested collections), the member
\* list of the collection is empty and its empty property is true.
Thm_C4 ==
    (last.op = "delete_components" /\ last.was) =>
        components[last.col] = <<>> /\ empty(components, last.col)
Wit_C4 ==
    /\ last.op = "delete_components"
    /\ last.was
    /\ last.col = "arch"
    /\ pre = {"vpc", "rds"}
    /\ okset = {"vpc", "rds"}

\* C5: delete_components_with_retry(max_attempts) calls delete_components at
\* most max_attempts + 1 times, never calls it once the collection is empty,
\* and returns, whatever teardown calls raise: inside the call a next step
\* is always possible, and every step either returns or raises the counter
\* c, which never exceeds max_attempts + 1.
Thm_C5 ==
    /\ [](passes <= max_attempts + 1 /\ c <= max_attempts + 1)
    /\ [][(pc = "retry" /\ empty(components, rcoll)) => passes' = passes]_vars
    /\ [](pc = "retry" => ENABLED RetryStep)
    /\ [][pc = "retry" => (pc' = "idle" \/ (c' = c + 1 /\ passes' = passes + 1))]_vars
Wit_C5 ==
    /\ pc = "idle"
    /\ last.op = "retry"
    /\ max_attempts = MaxAttempts
    /\ passes = max_attempts + 1
    /\ out = Manual

\* C6: when delete_components_with_retry returns, every member it started
\* with whose teardown never succeeded is still in the member list and the
\* manual-cleanup listing was printed; the success message was printed if and
\* only if the collection is empty.
Thm_C6 ==
    (pc = "idle" /\ last.op = "retry") =>
        /\ \A r \in pre \ okset : InSeq(r, components[last.col]) /\ out = Manual
        /\ out = Success <=> components[last.col] = <<>>
Wit_C6 ==
    /\ pc = "idle"
    /\ last.op = "retry"
    /\ pre = {"vpc", "rds"}
    /\ okset = {"rds"}
    /\ out = Manual

\* C7 as claimed: contains_resource(name=X) is true right after a resource
\* named X was added to the collection, and false right after that resource
\* was removed from it by a successful delete.
AfterAdd == last.op = "add_component" /\ Truthy(name[last.res])
AfterDelete == last.op = "delete" /\ last.res \in okset /\ Truthy(name[last.res])
Cex_C7 ==
    /\ AfterAdd => contains_resource(last.col, name[last.res], None) = "True"
    /\ AfterDelete =>
          \A col \in pre : contains_resource(col, name[last.res], None) = "False"

\* C7 as amended: ... and false right after that resource was removed from
\* it by a successful delete, provided no other member of the collection is
\* named X.
OtherNamed(col, r) == \E m \in Range(components[col]) \ {r} : name[m] = name[r]
Thm_C7 ==
    /\ AfterAdd => contains_resource(last.col, name[last.res], None) = "True"
    /\ AfterDelete =>
          \A col \in pre : ~OtherNamed(col, last.res) =>
              contains_resource(col, name[last.res], None) = "False"
Wit_C7 ==
    /\ AfterDelete
    /\ "arch" \in pre
    /\ components["arch"] # <<>>
    /\ ~OtherNamed("arch", last.res)

\* C8: contains_resource with neither a name nor an id raises; with a name
\* or an id it returns true exactly when some direct member has the given
\* name or the given id; in both cases the object graph is left unchanged.
Matches(col, nm, ident) ==
    \E m \in Range(components[col]) :
        (Truthy(nm) /\ name[m] = nm) \/ (Truthy(ident) /\ id[m] = ident)
ContainsAnswer ==
    last.op = "contains_resource" =>
        LET nm == last.res[1]
            ident == last.res[2]
        IN IF ~Truthy(nm) /\ ~Truthy(ident) THEN out = "raise"
           ELSE out = (IF Matches(last.col, nm, ident) THEN "True" ELSE "False")
Thm_C8 ==
    /\ []ContainsAnswer
    /\ [][last'.op = "contains_resource" => UNCHANGED lifecycle]_vars
Wit_C8 ==
    /\ last.op = "contains_resource"
    /\ last.res[1] = None
    /\ last.res[2] = IdOf("rds")
    /\ Len(components[last.col]) = 2
    /\ out = "True"
Wit_C8_raise == last.op = "contains_resource" /\ out = "raise" /\ components[last.col] # <<>>

\* C9: no container (a resource that is itself a collection) is torn down
\* and removed from its parent while its own member list is non-empty.
Cex_C9 == early = {}

\* C10: after a successful delete() of a resource, the resource is a member
\* of no collection, also when it was a member of several.
Thm_C10 ==
    (last.op = "delete" /\ last.res \in okset) =>
        \A col \in Coll : ~InSeq(last.res, components[col])
Wit_C10 ==
    /\ last.op = "delete"
    /\ last.res \in okset
    /\ last.was
    /\ pre = {"arch", "vpc"}

\* C11: when the provider call inside create() or delete() raises, the
\* wrapper prints the failure, the call returns a falsy value and no exception
\* reaches the caller, also when create() runs inside the constructor: after
\* each such operation nothing has escaped, the value returned is falsy, and
\* an operation that printed no failure has done its work.
Registered(r) == \A i \in 1..Len(collections[r]) : InSeq(r, components[collections[r][i]])
Thm_C11 ==
    last.op \in {"construct", "create", "delete"} =>
        /\ ~escaped
        /\ ~Truthy(out)
        /\ last.res \notin logged =>
              IF last.op = "delete" THEN last.res \in okset
              ELSE id[last.res] # None /\ Registered(last.res)
Wit_C11 ==
    /\ last.op = "construct"
    /\ last.res = "rds"
    /\ "rds" \in logged
    /\ ~escaped
    /\ id["rds"] = None
Wit_C11_delete == last.op = "delete" /\ last.res \in logged /\ ~escaped

\* C12: in one pass of delete_components every member that was in the list
\* at the start of the pass gets a teardown call, also when the teardown of
\* an earlier member raised.
Thm_C12 == last.op = "delete_components" => pre \subseteq tried
Wit_C12 ==
    /\ last.op = "delete_components"
    /\ last.col = "arch"
    /\ pre = {"vpc", "rds"}
    /\ components["arch"] = <<"vpc", "rds">>
    /\ logged = {"vpc", "rds"}
    /\ tried = {"vpc", "rds"}

\* C13: a resource whose creation has not succeeded has no id: after a
\* constructor whose create() printed a failure, the id of the resource is None.
Cex_C13 == (last.op = "construct" /\ last.res \in logged) => id[last.res] = None

\* C19: create() is all-or-nothing for membership: after a constructor whose
\* create() printed a failure the resource is a member of no collection, and
\* after one that printed none it is a member of every declared collection.
Cex_C19 ==
    last.op = "construct" =>
        IF last.res \in logged THEN Members(last.res) = {} ELSE Registered(last.res)

\* C20: for num_subnets >= 4 and num_azs >= 1 the placement of VPC.create
\* gives every availability zone that receives a subnet at least two subnets.
SubnetsIn(z) == Cardinality({i \in 1..Len(subnet_az) : subnet_az[i] = z})
Cex_C20 ==
    (az_pc = "done" /\ num_subnets >= 4 /\ num_azs >= 1) =>
        \A z \in Range(subnet_az) : SubnetsIn(z) >= 2

\* C14: when an exception or a keyboard interrupt escapes from a statement of
\* provisioning, main.py calls delete_components_with_retry() on
\* AWS_architecture, exits only after that call has returned, and is never at
\* the prompt of the READY loop.
Thm_C14 ==
    err # "none" =>
        /\ mpc \in {"deleting", "exited"}
        /\ teardowns = 1
        /\ last.op = "retry" /\ last.col = "arch"
        /\ max_attempts = DefaultMaxAttempts
        /\ mpc = "exited" => (pc = "idle" /\ out \in {Manual, Success})
Wit_C14 ==
    /\ err = "interrupt"
    /\ mpc = "exited"
    /\ pre = {"policy", "role"}
    /\ out = Success

\* C15: at the prompt the words upload, delete and exit are recognised in any
\* mix of upper and lower case.  delete starts the teardown with bounded
\* retry, which then runs to the exit; exit ends the program with no teardown
\* call and the collection as it was; upload, failed or not, and any other
\* line leave the program at the prompt with the collection as it was.
UpperOf == [a |-> "A", d |-> "D", e |-> "E", i |-> "I", l |-> "L", o |-> "O", p |-> "P", t |-> "T", u |-> "U", x |-> "X"]
Spells(a, word) ==
    /\ Len(a) = Len(word)
    /\ \A i \in 1..Len(word) : a[i] \in {word[i], UpperOf[word[i]]}
Thm_C15 ==
    /\ [][(mpc = "ready" /\ msg' # "Traceback") =>
            IF Spells(ans', <<"d", "e", "l", "e", "t", "e">>)
            THEN /\ mpc' = "deleting" /\ teardowns' = teardowns + 1
                 /\ pc' = "retry" /\ rcoll' = "arch" /\ c' = 0
                 /\ max_attempts' = DefaultMaxAttempts
                 /\ UNCHANGED lifecycle
            ELSE IF Spells(ans', <<"e", "x", "i", "t">>)
            THEN mpc' = "exited" /\ pc' = "idle" /\ UNCHANGED <<lifecycle, teardowns, tried>>
            ELSE mpc' = "ready" /\ pc' = "idle" /\ UNCHANGED <<lifecycle, teardowns, tried>>]_vars
    /\ [](mpc = "deleting" => (ENABLED MainTeardownStep /\ passes <= max_attempts + 1))
    /\ [][(mpc = "deleting" /\ mpc' # "deleting") => (mpc' = "exited" /\ pc = "idle")]_vars
Wit_C15 ==
    /\ mpc = "exited"
    /\ ans = <<"E", "X", "I", "T">>
    /\ teardowns = 0
    /\ Len(components["arch"]) = 3
Wit_C15_delete ==
    /\ mpc = "exited"
    /\ ans = <<"D", "e", "l", "e", "t", "e">>
    /\ teardowns = 1
    /\ out = Manual
Wit_C15_upload == mpc = "ready" /\ ans = <<"U", "P", "L", "O", "A", "D">> /\ msg = "Uploading"

\* C16: once a credentials file or a policy document was found missing, no
\* further provider creation call is made.
Cex_C16 == late_calls = 0

\* C17: create_lambda_function_with_retry makes at most max_attempts
\* attempts, each one right after a sleep, and none once the collection holds
\* a resource with the name of the function; it always has a next step; when
\* the attempts are used up it prints its failure and provisioning goes on.
LambdaPcs == {"lambda", "lambda_sleep", "lambda_new"}
Thm_C17 ==
    /\ [](attempts <= lmax /\ lc <= lmax /\ attempts <= sleeps /\ sleeps <= lc)
    /\ [][attempts' # attempts =>
            /\ attempts' = attempts + 1
            /\ sleeps = attempts + 1
            /\ contains_resource("arch", LambdaName, None) = "False"]_vars
    /\ [][(mpc \in LambdaPcs /\ mpc' = "database") =>
            \/ contains_resource("arch", LambdaName, None) = "True" /\ msg' = msg
            \/ lc = lmax /\ msg' = CouldNotCreate /\ err' = "none"]_vars
    /\ [](mpc \in LambdaPcs => ENABLED LambdaStep)
Wit_C17 ==
    /\ mpc = "database"
    /\ msg = CouldNotCreate
    /\ lmax = MaxLambdaAttempts
    /\ attempts = lmax
    /\ sleeps = lmax
    /\ "lambda" \in provisioned
Wit_C17_created ==
    /\ mpc = "database"
    /\ attempts = 2
    /\ InSeq("lambda", components["arch"])

\* C18: when provisioning is aborted, every resource created at the provider
\* so far is a member of the top-level collection (or of a collection nested
\* in it) and has got a teardown call by the time the program exits.
Cex_C18 ==
    (err # "none" /\ mpc \in {"deleting", "exited"}) =>
        /\ provisioned \subseteq pre
        /\ mpc = "exited" => provisioned \subseteq tried

\* C21: with k the zone count chosen for n subnets, subnet i (counted from 0,
\* in creation order) is placed in zone floor(i / ceil(n/k)): the zone
\* indices never decrease, each is below k, and no zone receives more than
\* ceil(n/k) subnets.  When the placement ends without an error all n subnets
\* are placed.
PerZone == CHOOSE m \in 0..num_subnets : m * n_azs >= num_subnets /\ (m - 1) * n_azs < num_subnets
PlacedAsClaimed ==
    /\ \A j \in 1..Len(subnet_az) :
          /\ subnet_az[j] * PerZone <= j - 1
          /\ j - 1 < (subnet_az[j] + 1) * PerZone
          /\ subnet_az[j] < n_azs
    /\ \A j \in 1..(Len(subnet_az) - 1) : subnet_az[j] <= subnet_az[j + 1]
    /\ \A z \in Range(subnet_az) : SubnetsIn(z) <= PerZone
Thm_C21 ==
    /\ az_pc \in {"done", "raised"} => (n_azs >= 1 => PlacedAsClaimed)
    /\ az_pc = "done" => Len(subnet_az) = num_subnets
Wit_C21 ==
    /\ az_pc = "done"
    /\ num_subnets = 7
    /\ n_azs = 3
    /\ subnet_az = <<0, 0, 0, 1, 1, 1, 2>>

\* C27: for every num_subnets >= 1 and num_azs >= 1 the zone count k chosen
\* satisfies 1 <= k <= num_azs, and the placement of the subnets does not
\* raise.
Cex_C27 ==
    (num_subnets >= 1 /\ num_subnets <= SubnetLimit /\ num_azs >= 1) =>
        /\ n_azs # NoneInt => (1 <= n_azs /\ n_azs <= num_azs)
        /\ az_pc # "raised"

\* C28: for every num_subnets that passes the assert (num_subnets <= 256)
\* the subnets get pairwise distinct blocks 10.0.x.0/24 with x in 0..255.
Cex_C28 ==
    az_pc \in {"done", "raised"} =>
        /\ \A j \in 1..Len(subnet_cidr) : subnet_cidr[j] \in 0..255
        /\ NoDup(subnet_cidr)

\* C22: a teardown operation (delete, delete_components, a pass of
\* delete_components_with_retry) takes a member out of a member list only if
\* the teardown of that member succeeded in it, and no other operation takes
\* any out; after a pass every member the collection started with whose
\* teardown has not succeeded is still in its list, so the collection is not
\* empty.
Thm_C22 ==
    /\ [][\A col \in Coll : \A r \in Range(components[col]) :
             ~InSeq(r, components'[col]) =>
                 /\ last'.op \in {"delete", "delete_components", "retry"}
                 /\ r \in okset']_vars
    /\ [](last.op \in {"delete_components", "retry"} =>
             \A r \in pre \ okset :
                 InSeq(r, components[last.col]) /\ ~empty(components, last.col))
Wit_C22 ==
    /\ last.op = "delete_components"
    /\ last.col = "arch"
    /\ pre = {"vpc", "rds"}
    /\ okset = {"vpc"}
    /\ logged = {"rds"}
    /\ components["arch"] = <<"rds">>

\* C23: create() and delete() return a truthy value exactly when the
\* operation succeeded (printed no failure).
Cex_C23 ==
    last.op \in {"create", "delete"} => (Truthy(out) <=> last.res \notin logged)

\* C24: membership implies the back-reference: a resource that is in the
\* member list of a collection has that collection in its list of collections.
BackReferences ==
    \A col \in Coll : \A r \in Range(components[col]) : InSeq(col, collections[r])
Thm_C24 == BackReferences
Wit_C24 ==
    /\ last.op = "add_component"
    /\ last.col = "vpc"
    /\ last.res = "rds"
    /\ ~last.was
    /\ components["arch"] = <<"vpc", "rds">>
    /\ collections["rds"] = <<"arch", "vpc">>

\* C25: in delete_components and delete_components_with_retry no provider
\* teardown call is made for a resource whose teardown has already succeeded.
Cex_C25 == last.op \in {"delete_components", "retry"} => again = {}

\* C26: if the collection already holds a resource with the name of the
\* function when create_lambda_function_with_retry is called, the call makes
\* no attempt (and does not sleep) and returns without raising.
Cex_C26 ==
    ("lambda" \in provisioned /\ attempts = 0) => (err = "none" /\ sleeps = 0)

\* C29: at the prompt of the READY loop every resource of the topology has
\* been created (it has its id) and is a member of AWS_architecture; the
\* Lambda function is created with the default max_attempts, as main.py does.
DefaultLambdaAttempts == 2
Cex_C29 ==
    (mpc = "ready" /\ lmax = DefaultLambdaAttempts) =>
        \A r \in MainRes : id[r] # None /\ InSeq(r, components["arch"])

\* C30: if teardown calls raise only for a member on which another member
\* that still exists depends, and no dependency chain among the members has
\* more than max_attempts + 1 elements, then delete_components_with_retry
\* returns with the collection empty and its success message printed,
\* whatever the order of the members.  Every pass shortens the longest chain
\* among the members that are left by at least one; inside the call the loop
\* can return or has an outcome of the next pass to take; every step returns
\* or is a pass that raises the counter c, which is bounded; and the call
\* does not return in any other way than with success.
RECURSIVE ChainFrom(_, _)
ChainFrom(r, M) ==
    LET next == {d \in M \ {r} : <<r, d>> \in deps}
        lens == {ChainFrom(d, M \ {r}) : d \in next}
    IN 1 + (IF lens = {} THEN 0 ELSE CHOOSE n \in lens : \A k \in lens : k <= n)
LongestChain(M) ==
    LET lens == {ChainFrom(r, M) : r \in M}
    IN IF lens = {} THEN 0 ELSE CHOOSE n \in lens : \A k \in lens : k <= n
ChainsFit == LongestChain(pre) <= max_attempts + 1
Thm_C30 ==
    /\ [](last.op = "retry" =>
             /\ c <= max_attempts + 1
             /\ LongestChain(Range(components["arch"])) + passes <= LongestChain(pre))
    /\ [](pc = "retry" =>
             \/ ENABLED RetryDone
             \/ ENABLED RetryGiveUp
             \/ ~empty(components, rcoll) /\ ~GiveUp(c, max_attempts) /\ DepOracles # {})
    /\ [][pc = "retry" => (pc' = "idle" \/ (c' = c + 1 /\ passes' = passes + 1))]_vars
    /\ []((pc = "idle" /\ last.op = "retry" /\ ChainsFit) =>
             (out = Success /\ empty(components, "arch")))
Wit_C30 ==
    /\ pc = "idle"
    /\ last.op = "retry"
    /\ out = Success
    /\ pre = MainRes
    /\ LongestChain(pre) = 3
    /\ max_attempts = 2
    /\ passes = 3

====
